---------------------------- MODULE Spec2Model ----------------------------
(***************************************************************************)
(* A model of nandwrite_main (src/nandwrite.c): the write loop that        *)
(* streams an image onto a NAND device, skipping bad blocks, staging one   *)
(* aligned erase block of pages (+OOB) in filebuf and replaying it on the  *)
(* next block after a write failure.                                       *)
(*                                                                         *)
(* Units are bytes, as in the source.  Pointers into filebuf are offsets   *)
(* from filebuf; the NULL writebuf lies below filebuf.  The input source   *)
(* holds st_size bytes, byte number i having the value i, so that shifted  *)
(* or repeated data is visible on the device.  The options quiet, noecc    *)
(* and autoplace (the write mode handed through to mtd_write) and          *)
(* inputskip do not change what is read, staged or written and are left    *)
(* at their defaults.                                                      *)
(***************************************************************************)
EXTENDS Integers, Sequences, FiniteSets, TLC

\* ------------------------------------------------------------------ bounds
\* The longest input source, in bytes.
MaxImgLen == 10
\* The most page writes the device fails with EIO in one run.
MaxWriteFailures == 6

\* ------------------------------------------------------- program constants
kEraseByte == 255
EXIT_SUCCESS == 0
EXIT_FAILURE == 1
\* writebuf starts as NULL: an address below filebuf, as an offset from it.
NullPtr == -1

\* The devices mtd_get_dev_info may describe: page (min_io_size), OOB and
\* erase block sizes in bytes, and the device size.  Four erase blocks of
\* one page and two of two pages; six of one page.
Devices ==
    { [min_io_size |-> 2, oob_size |-> 1, eb_size |-> 2, size |-> 8],
      [min_io_size |-> 2, oob_size |-> 1, eb_size |-> 4, size |-> 8] }
WideDevice == [min_io_size |-> 2, oob_size |-> 1, eb_size |-> 2, size |-> 12]

\* The values of -b: 1|2|4 by the help text; any int >= 0 passes
\* process_options.
BlockAligns == {1, 2, 3}
\* Values of -b that are no multiple of erase blocks.
InvalidAligns == {-1, 0}

\* The values of --input-size (0: not given).
InputSizes == {0, 4}

\* What an uninitialised long long may hold when it is read.
Garbage == {0, 1}

VARIABLES
    \* options (the file's static variables)
    mtdoffset, inputsize, writeoob, onlyoob, markbad, noskipbad, pad,
    blockalign,
    \* the address -s gave, which mtdoffset starts from
    start,
    \* the collaborators: the device, its bad blocks and pages, the input
    mtd, bad, flash, ifd, st_size, inpos,
    \* nandwrite_main's locals; ofg_imglen is <<>> until it is assigned and
    \* ret is <<>> until the process returns or exits, then <<value>>
    pc, imglen, baderaseblock, blockstart, failed, filebuf, filebuf_len,
    writebuf, ofg_imglen, ret,
    \* what the run showed: the last error, the final message, every call
    \* made to a collaborator in order
    errmsg, partial_msg, log

vars == <<mtdoffset, start, inputsize, writeoob, onlyoob, markbad, noskipbad, pad,
          blockalign, mtd, bad, flash, ifd, st_size, inpos, pc, imglen,
          baderaseblock, blockstart, failed, filebuf, filebuf_len, writebuf,
          ofg_imglen, ret, errmsg, partial_msg, log>>

options == <<start, inputsize, writeoob, onlyoob, markbad, noskipbad, pad, blockalign>>
device == <<mtd, ifd, st_size>>

\* --------------------------------------------------------------- helpers
Min(a, b) == IF a < b THEN a ELSE b

\* a & b on two's complement integers of any width, a >= 0.
RECURSIVE BitAnd(_, _)
BitAnd(a, b) ==
    IF a = 0 THEN 0
    ELSE (a % 2) * (b % 2) + 2 * BitAnd(a \div 2, b \div 2)

\* n bytes of 0xff.
Erased(n) == [i \in 1..n |-> kEraseByte]

\* erase_buffer(buf + at, n) on the sequence buf.
erase_buffer(buf, at, n) ==
    [i \in 1..Len(buf) |-> IF i > at /\ i <= at + n THEN kEraseByte ELSE buf[i]]

\* The bytes the input source holds from position p (0-based), n of them.
InputBytes(p, n) == [i \in 1..n |-> p + i]

\* buf with the bytes s stored from offset at.
Store(buf, at, s) ==
    [i \in 1..Len(buf) |-> IF i > at /\ i <= at + Len(s) THEN s[i - at] ELSE buf[i]]

pagelen == mtd.min_io_size + (IF writeoob THEN mtd.oob_size ELSE 0)
ebsize_aligned == mtd.eb_size * blockalign
filebuf_max == (ebsize_aligned \div mtd.min_io_size) * pagelen
eb_cnt == mtd.size \div mtd.eb_size
NumPages == mtd.size \div mtd.min_io_size

\* mtdoffset & (~ebsize_aligned + 1)
BlockStartOf(off) == BitAnd(off, -ebsize_aligned)

STDIN_FILENO == "stdin"

\* The check after closeall.
PartialCheck(f, il, wb, fl) ==
    f \/ (ifd # STDIN_FILENO /\ il > 0) \/ wb < fl

\* closeall: with the locals as they are when control gets there.
closeall(f, il, wb, fl, why) ==
    /\ pc' = "done"
    /\ failed' = f
    /\ errmsg' = why
    /\ partial_msg' = PartialCheck(f, il, wb, fl)
    /\ ret' = <<EXIT_SUCCESS>>

\* ------------------------------------------------------------------ Init
\* The start offsets of -s: every page of the device, the device's end and
\* an address that is not page-aligned.
StartOffsets == {1} \cup {p * mtd.min_io_size : p \in 0..NumPages}

\* The runs that vary the input: every source kind, length, padding and OOB
\* policy and start offset, on a device without bad blocks.
InputCases ==
    /\ mtd \in Devices
    /\ blockalign = 1
    /\ bad = {}
    /\ markbad = FALSE
    /\ noskipbad = FALSE
    /\ writeoob \in BOOLEAN
    /\ onlyoob \in BOOLEAN
    /\ onlyoob => writeoob
    /\ pad \in BOOLEAN
    /\ inputsize \in InputSizes
    /\ ifd \in {STDIN_FILENO, "file"}
    /\ st_size \in 0..MaxImgLen
    /\ mtdoffset \in StartOffsets

\* The runs that vary the device: every block alignment, set of bad blocks,
\* skipping and marking policy, from the first page or the second, with a
\* file of whole pages.
DeviceCases ==
    /\ mtd \in Devices
    /\ blockalign \in BlockAligns
    /\ bad \in SUBSET (0..(eb_cnt - 1))
    /\ markbad \in BOOLEAN
    /\ noskipbad \in BOOLEAN
    /\ writeoob = FALSE
    /\ onlyoob = FALSE
    /\ pad = FALSE
    /\ inputsize = 0
    /\ ifd = "file"
    /\ st_size \in {n \in 0..MaxImgLen : n % mtd.min_io_size = 0}
    /\ mtdoffset \in {0, mtd.min_io_size}

\* The runs over three aligned blocks of two erase blocks each, at most one
\* of the six bad, with a file of two to four pages.
WideCases ==
    /\ mtd = WideDevice
    /\ blockalign = 2
    /\ bad \in {b \in SUBSET (0..(eb_cnt - 1)) : Cardinality(b) <= 1}
    /\ markbad \in BOOLEAN
    /\ noskipbad = FALSE
    /\ writeoob = FALSE
    /\ onlyoob = FALSE
    /\ pad = FALSE
    /\ inputsize = 0
    /\ ifd = "file"
    /\ st_size \in {n * mtd.min_io_size : n \in 2..4}
    /\ mtdoffset = 0

\* The runs with a block alignment that is negative or zero, with a file
\* of one or two pages.
AlignCases ==
    /\ mtd \in Devices
    /\ blockalign \in InvalidAligns
    /\ bad \in {{}, {0}}
    /\ markbad = FALSE
    /\ noskipbad \in BOOLEAN
    /\ writeoob = FALSE
    /\ onlyoob = FALSE
    /\ pad = FALSE
    /\ inputsize = 0
    /\ ifd = "file"
    /\ st_size \in {mtd.min_io_size, 2 * mtd.min_io_size}
    /\ mtdoffset = 0

Init ==
    /\ InputCases \/ DeviceCases \/ WideCases \/ AlignCases
    /\ start = mtdoffset
    /\ flash = [p \in 0..(NumPages - 1) |-> [main |-> <<>>, oob |-> <<>>]]
    /\ inpos = 0
    /\ pc = "start"
    /\ imglen = 0
    /\ baderaseblock = FALSE
    /\ blockstart = -1
    /\ failed = TRUE
    /\ filebuf = <<>>
    /\ filebuf_len = 0
    /\ writebuf = NullPtr
    /\ ofg_imglen = <<>>
    /\ ret = <<>>
    /\ errmsg = ""
    /\ partial_msg = FALSE
    /\ log = <<>>

\* ----------------------------------------------------------------- Setup
\* The alignment check left out: every length passes.
NotPageAlignedNever(il) == FALSE
\* "Check, if file is page-aligned" and "Check, if length fits into device".
NotPageAligned(il) == ~pad /\ (il % pagelen) # 0
\* The capacity check with >= for >: an image that ends at the device's end
\* is turned away.
DoesNotFitAtEnd(il) == (il \div pagelen) * mtd.min_io_size >= mtd.size - mtdoffset
DoesNotFit(il) == (il \div pagelen) * mtd.min_io_size > mtd.size - mtdoffset

\* imglen as it is set before the checks.
InitialImglen ==
    IF ifd = STDIN_FILENO
    THEN (IF inputsize # 0 THEN inputsize ELSE pagelen)
    ELSE (IF inputsize # 0 THEN inputsize ELSE st_size)

\* process_options' checks, then nandwrite_main up to the write loop.
Setup ==
    /\ pc = "start"
    /\ UNCHANGED <<mtdoffset, options, device, bad, flash, inpos,
                   baderaseblock, blockstart, filebuf_len, writebuf, log>>
    /\ LET il == InitialImglen
           ofg == IF ifd # STDIN_FILENO /\ inputsize = 0 THEN <<il>> ELSE ofg_imglen
       IN  IF blockalign < 0
           THEN \* errmsg_die: exit(EXIT_FAILURE)
                /\ pc' = "done"
                /\ ret' = <<EXIT_FAILURE>>
                /\ errmsg' = "Can't specify negative blockalign with option -b"
                /\ UNCHANGED <<imglen, failed, filebuf, ofg_imglen, partial_msg>>
           ELSE IF ~onlyoob /\ pad /\ writeoob
           THEN \* errmsg_die: exit(EXIT_FAILURE)
                /\ pc' = "done"
                /\ ret' = <<EXIT_FAILURE>>
                /\ errmsg' = "Can't pad when oob data is present"
                /\ UNCHANGED <<imglen, failed, filebuf, ofg_imglen, partial_msg>>
           ELSE IF BitAnd(mtdoffset, mtd.min_io_size - 1) # 0
           THEN /\ pc' = "done"
                /\ ret' = <<-1>>
                /\ errmsg' = "The start address is not page-aligned"
                /\ UNCHANGED <<imglen, failed, filebuf, ofg_imglen, partial_msg>>
           ELSE /\ imglen' = il
                /\ ofg_imglen' = ofg
                /\ IF NotPageAligned(il)
                   THEN /\ closeall(TRUE, il, writebuf, filebuf_len,
                                    "Input file is not page-aligned")
                        /\ UNCHANGED filebuf
                   ELSE IF DoesNotFit(il)
                   THEN /\ closeall(TRUE, il, writebuf, filebuf_len,
                                    "Input file does not fit into device")
                        /\ UNCHANGED filebuf
                   ELSE /\ filebuf' = Erased(filebuf_max)
                        /\ pc' = "loop"
                        /\ UNCHANGED <<failed, ret, errmsg, partial_msg>>

\* ------------------------------------------------------------------ loop
\* The condition of the write loop.
LoopCond ==
    (imglen > 0 \/ writebuf < filebuf_len) /\ mtdoffset < mtd.size

\* The loop ends: failed = false, closeall.
Exit ==
    /\ pc = "loop"
    /\ ~LoopCond
    /\ closeall(FALSE, imglen, writebuf, filebuf_len, errmsg)
    /\ UNCHANGED <<mtdoffset, options, device, bad, flash, inpos, imglen,
                   baderaseblock, blockstart, filebuf, filebuf_len, writebuf,
                   ofg_imglen, log>>

\* -------------------------------------------------------- bad block scan
\* What a division by zero may do: raise SIGFPE, or go on with a quotient.
DivZeroOutcomes == {"SIGFPE", "quotient 0"}

\* mtd_is_bad(&mtd, fd, eb): -1 for an erase block the device does not have,
\* else 1 for a bad block and 0 for a good one.
mtd_is_bad(eb) ==
    IF eb < 0 \/ eb >= eb_cnt THEN -1
    ELSE IF eb \in bad THEN 1 ELSE 0

\* A call to a collaborator, as the log keeps it: the erase block passed,
\* the device offset it stands for (the input position for a read), the
\* payloads, the result, and blockstart at the time of the call.
Call(op, eb, at, main, oob, res, bs) ==
    [op |-> op, eb |-> eb, at |-> at, main |-> main, oob |-> oob, res |-> res,
     bs |-> bs]

\* The scan "while (blockstart != (mtdoffset & (~ebsize_aligned + 1)))" on
\* the record s of the locals it uses; failAt > 0 makes the failAt-th
\* mtd_is_bad call of the scan fail.  ScanDo is the do-while over the
\* sub-blocks, one call per mtd_is_bad.  With ebsize_aligned = 0 the
\* divisions offs / ebsize_aligned and ebsize_aligned / blockalign divide by
\* zero: s.z says whether that raises SIGFPE or goes on with a quotient 0.
RECURSIVE ScanWhile(_, _)
RECURSIVE ScanDo(_, _)
ScanWhile(s, failAt) ==
    IF s.blockstart = BlockStartOf(s.mtdoffset)
    THEN [s EXCEPT !.status = "ok"]
    ELSE LET bs == BlockStartOf(s.mtdoffset)
             rewinding == s.writebuf = 0
             s1 == [s EXCEPT
                      !.blockstart = bs,
                      !.offs = bs,
                      !.filebuf = IF rewinding THEN @
                                  ELSE erase_buffer(@, 0, s.filebuf_len),
                      !.filebuf_len = IF rewinding THEN @ ELSE 0,
                      !.writebuf = 0,
                      !.baderaseblock = FALSE]
         IN  IF noskipbad THEN ScanWhile(s1, failAt) ELSE ScanDo(s1, failAt)

ScanDo(s, failAt) ==
    IF ebsize_aligned = 0 /\ s.z = "SIGFPE" THEN [s EXCEPT !.status = "SIGFPE"]
    ELSE
    LET eb == IF ebsize_aligned = 0 THEN 0 ELSE s.offs \div ebsize_aligned
        step == IF blockalign = 0 THEN 0 ELSE ebsize_aligned \div blockalign
        n == s.nq + 1
        r == IF n = failAt THEN -1 ELSE mtd_is_bad(eb)
        s1 == [s EXCEPT !.nq = n,
                        !.log = Append(@, Call("is_bad", eb, s.offs, <<>>, <<>>, r, s.blockstart))]
    IN  IF r < 0 THEN [s1 EXCEPT !.status = "MTD get bad block failed"]
        ELSE LET b == s1.baderaseblock \/ r = 1
                 m == IF b THEN s1.blockstart + ebsize_aligned ELSE s1.mtdoffset
                 s2 == [s1 EXCEPT !.baderaseblock = b, !.mtdoffset = m]
             IN  IF b /\ m > mtd.size
                 THEN [s2 EXCEPT !.status = "too many bad blocks"]
                 ELSE LET s3 == [s2 EXCEPT !.offs = @ + step]
                      IN  IF s3.offs < s3.blockstart + ebsize_aligned
                          THEN ScanDo(s3, failAt)
                          ELSE ScanWhile(s3, failAt)

ScanStart(z) ==
    [z |-> z, mtdoffset |-> mtdoffset, blockstart |-> blockstart, offs |-> 0,
     baderaseblock |-> baderaseblock, filebuf |-> filebuf,
     filebuf_len |-> filebuf_len, writebuf |-> writebuf, log |-> log,
     nq |-> 0, status |-> "ok"]

\* A loop iteration that finds a new block: the whole scan, up to the fill.
ScanBlocks ==
    /\ pc = "loop"
    /\ LoopCond
    /\ blockstart # BlockStartOf(mtdoffset)
    /\ \E z \in (IF ebsize_aligned = 0 THEN DivZeroOutcomes ELSE {"quotient 0"}) :
       \E failAt \in 0..ScanWhile(ScanStart(z), 0).nq :
         LET s == ScanWhile(ScanStart(z), failAt)
         IN  /\ mtdoffset' = s.mtdoffset
             /\ blockstart' = s.blockstart
             /\ baderaseblock' = s.baderaseblock
             /\ filebuf' = s.filebuf
             /\ filebuf_len' = s.filebuf_len
             /\ writebuf' = s.writebuf
             /\ log' = s.log
             /\ IF s.status = "ok"
                THEN /\ pc' = "fill"
                     /\ UNCHANGED <<failed, errmsg, partial_msg, ret>>
                ELSE IF s.status = "SIGFPE"
                THEN \* the process does not reach closeall
                     /\ pc' = "SIGFPE"
                     /\ UNCHANGED <<failed, errmsg, partial_msg, ret>>
                ELSE closeall(TRUE, imglen, s.writebuf, s.filebuf_len, s.status)
    /\ UNCHANGED <<options, device, bad, flash, inpos, imglen, ofg_imglen>>

\* ------------------------------------------------------------------ fill
\* a / b as C divides: the quotient truncated towards zero (b # 0).
Abs(a) == IF a < 0 THEN -a ELSE a
CDiv(a, b) ==
    IF (a >= 0) = (b > 0) THEN Abs(a) \div Abs(b) ELSE -(Abs(a) \div Abs(b))

\* The values a read of ofg_imglen may give.
OfgValues == IF ofg_imglen = <<>> THEN Garbage ELSE {ofg_imglen[1]}

\* What a read() or an erase_buffer past the end of the malloc'ed staging
\* buffer may do: the process faults (at once, or on the heap it has
\* damaged), or it goes on with the bytes stored in the memory after the
\* buffer.
OverrunOutcomes == {"fault", "goes on"}

\* The staging buffer with the memory after it, up to n bytes from filebuf.
Grow(buf, n) ==
    IF Len(buf) >= n THEN buf ELSE buf \o [i \in 1..(n - Len(buf)) |-> 0]

\* A fill that takes the staging buffer to be empty.
FillStartEmpty ==
    [filebuf |-> filebuf, filebuf_len |-> 0, imglen |-> imglen,
     inpos |-> inpos, log |-> log, status |-> "ok"]
FillStart ==
    [filebuf |-> filebuf, filebuf_len |-> filebuf_len, imglen |-> imglen,
     inpos |-> inpos, log |-> log, status |-> "ok"]

\* "Read more data from the input if there isn't enough in the buffer", on
\* the record s.  rd is what read() does ("ok": it returns the bytes the
\* source still has, up to the count asked for; "error": it returns -1), d
\* the value read from ofg_imglen, z what dividing by a zero d does and ov
\* what storing past the end of the buffer does.
FillPage(s, rd, d, z, ov) ==
    IF ~(writebuf + mtd.min_io_size > s.filebuf_len) THEN s
    ELSE
    LET readlen == mtd.min_io_size
        alreadyread == s.filebuf_len - writebuf
        got == Min(st_size - s.inpos, readlen - alreadyread)
        tinycnt == alreadyread + got
        eof == got < readlen - alreadyread
        s1 == [s EXCEPT
                 !.filebuf = Store(Grow(@, writebuf + readlen), writebuf + alreadyread,
                                   InputBytes(s.inpos, got)),
                 !.inpos = @ + got,
                 !.log = Append(@, Call("read", 0, s.inpos, InputBytes(s.inpos, got),
                                        <<>>, got, blockstart))]
    IN  IF writebuf + readlen > filebuf_max /\ ov = "fault"
        THEN [s EXCEPT !.status = "overflow"]
        ELSE IF rd = "error"
        THEN [s EXCEPT !.status = "File I/O error on input",
                       !.log = Append(@, Call("read", 0, s.inpos, <<>>, <<>>, -1, blockstart))]
        ELSE IF tinycnt = 0
        THEN [s1 EXCEPT !.status = "break",
                        !.imglen = IF ifd = STDIN_FILENO THEN 0 ELSE @]
        ELSE IF tinycnt < readlen /\ ~pad
        THEN [s1 EXCEPT !.status = "Unexpected EOF"]
        ELSE
        LET s2 == [s1 EXCEPT
                     !.filebuf = erase_buffer(@, writebuf + tinycnt, readlen - tinycnt),
                     !.filebuf_len = @ + readlen - alreadyread]
            il == s.imglen - (tinycnt - alreadyread)
        IN  IF ifd # STDIN_FILENO
            THEN IF d = 0
                 THEN IF z = "SIGFPE"
                      THEN [s2 EXCEPT !.imglen = il, !.status = "SIGFPE"]
                      ELSE [s2 EXCEPT !.imglen = il,
                               !.log = Append(@, Call("progress", 0, 0, <<>>, <<>>, 0, blockstart))]
                 ELSE [s2 EXCEPT !.imglen = il,
                          !.log = Append(@, Call("progress", 0, 0, <<>>, <<>>,
                                                 CDiv((d - il) * 100, d), blockstart))]
            ELSE IF eof THEN [s2 EXCEPT !.imglen = 0] ELSE s2

\* "Read more data for the OOB from the input if there isn't enough in the
\* buffer", on the record s the page fill left.
FillOob(s, rd, ov) ==
    LET oobbuf == writebuf + mtd.min_io_size
        readlen == mtd.oob_size
        alreadyread == s.filebuf_len - oobbuf
        got == Min(st_size - s.inpos, readlen - alreadyread)
        tinycnt == alreadyread + got
        s1 == [s EXCEPT
                 !.filebuf = Store(Grow(@, oobbuf + readlen), oobbuf + alreadyread,
                                   InputBytes(s.inpos, got)),
                 !.inpos = @ + got,
                 !.log = Append(@, Call("read_oob", 0, s.inpos, <<>>,
                                        InputBytes(s.inpos, got), got, blockstart))]
    IN  IF ~writeoob \/ s.status # "ok" \/ ~(oobbuf + mtd.oob_size > s.filebuf_len)
        THEN s
        ELSE IF oobbuf + readlen > filebuf_max /\ ov = "fault"
        THEN [s EXCEPT !.status = "overflow"]
        ELSE IF rd = "error"
        THEN [s EXCEPT !.status = "File I/O error on input",
                       !.log = Append(@, Call("read_oob", 0, s.inpos, <<>>, <<>>, -1, blockstart))]
        ELSE IF tinycnt < readlen
        THEN [s1 EXCEPT !.status = "Unexpected EOF for OOB"]
        ELSE [s1 EXCEPT !.filebuf_len = @ + readlen - alreadyread,
                        !.imglen = IF ifd # STDIN_FILENO
                                   THEN @ - (tinycnt - alreadyread) ELSE @]

\* The fill of one loop iteration: the page, then its OOB.
Fill ==
    /\ \/ pc = "fill"
       \/ pc = "loop" /\ LoopCond /\ blockstart = BlockStartOf(mtdoffset)
    /\ \E rd \in {"ok", "error"}, ro \in {"ok", "error"},
          d \in OfgValues, z \in DivZeroOutcomes,
          ov \in (IF writebuf + pagelen > filebuf_max
                  THEN OverrunOutcomes ELSE {"goes on"}) :
         LET s == FillOob(FillPage(FillStart, rd, d, z, ov), ro, ov)
         IN  /\ filebuf' = s.filebuf
             /\ filebuf_len' = s.filebuf_len
             /\ imglen' = s.imglen
             /\ inpos' = s.inpos
             /\ log' = s.log
             /\ IF s.status = "ok"
                THEN /\ pc' = "write"
                     /\ UNCHANGED <<failed, errmsg, partial_msg, ret>>
                ELSE IF s.status \in {"overflow", "SIGFPE"}
                THEN \* the process does not reach closeall
                     /\ pc' = s.status
                     /\ UNCHANGED <<failed, errmsg, partial_msg, ret>>
                ELSE IF s.status = "break"
                THEN closeall(FALSE, s.imglen, writebuf, s.filebuf_len, errmsg)
                ELSE closeall(TRUE, s.imglen, writebuf, s.filebuf_len, s.status)
    /\ UNCHANGED <<mtdoffset, options, device, bad, flash, baderaseblock,
                   blockstart, writebuf, ofg_imglen>>

\* ----------------------------------------------------------------- write
\* What mtd_write, mtd_erase and mtd_mark_bad may return for erase block
\* eb: success, a failure with errno EIO, a failure with another errno (the
\* only result for an erase block the device does not have).
DevResults(eb) ==
    IF eb < 0 \/ eb >= eb_cnt THEN {"error"} ELSE {"ok", "EIO", "error"}

\* What mtd_write may return for a page of erase block eb: the device fails
\* at most MaxWriteFailures page writes of a run with EIO.
WriteResults(eb) ==
    IF Cardinality({i \in DOMAIN log : log[i].op = "write" /\ log[i].res = "EIO"})
          >= MaxWriteFailures
    THEN DevResults(eb) \ {"EIO"}
    ELSE DevResults(eb)

\* The slice buf[at .. at + n) of the staging buffer.
Slice(buf, at, n) == [i \in 1..n |-> buf[at + i]]

\* Only the first erase block of the aligned block.
EraseOffsetsFirst == <<blockstart>>
\* The erase blocks the recovery erases, in order:
\* for (i = blockstart; i < blockstart + ebsize_aligned; i += mtd.eb_size).
EraseOffsets ==
    [k \in 1..((ebsize_aligned + mtd.eb_size - 1) \div mtd.eb_size) |->
        blockstart + (k - 1) * mtd.eb_size]

\* The erase loop that goes on after every failure.
EraseCallsAll(er, k) ==
    [j \in 1..(Len(EraseOffsets) - k + 1) |->
        Call("erase", EraseOffsets[k + j - 1] \div mtd.eb_size, EraseOffsets[k + j - 1],
             <<>>, <<>>, er[k + j - 1], blockstart)]
\* The erase loop under the results er (one per erase): the calls made, up
\* to and with the first that fails with an errno other than EIO.
RECURSIVE EraseCalls(_, _)
EraseCalls(er, k) ==
    IF k > Len(EraseOffsets) THEN <<>>
    ELSE LET c == Call("erase", EraseOffsets[k] \div mtd.eb_size, EraseOffsets[k],
                       <<>>, <<>>, er[k], blockstart)
         IN  IF er[k] = "error" THEN <<c>> ELSE <<c>> \o EraseCalls(er, k + 1)

\* The pages of the device after the erase calls cs.
FlashAfterErase(cs) ==
    [p \in DOMAIN flash |->
        IF \E j \in 1..Len(cs) :
              /\ cs[j].res = "ok"
              /\ (p * mtd.min_io_size) \div mtd.eb_size = cs[j].eb
        THEN [main |-> <<>>, oob |-> <<>>]
        ELSE flash[p]]

\* The page after a write of main data and OOB onto it.
Programmed(page, main, oob) ==
    [main |-> IF onlyoob THEN page.main ELSE main,
     oob |-> IF writeoob THEN oob ELSE page.oob]

\* The main data passed whatever the mode.
WriteMainAlways == Slice(filebuf, writebuf, mtd.min_io_size)
\* The data and OOB arguments of mtd_write (<<>>: NULL, of length 0).
WriteMain ==
    IF onlyoob THEN <<>> ELSE Slice(filebuf, writebuf, mtd.min_io_size)
WriteOob ==
    IF writeoob THEN Slice(filebuf, writebuf + mtd.min_io_size, mtd.oob_size)
    ELSE <<>>

\* Where the recovery puts the cursor: mtdoffset = blockstart + ebsize_aligned.
NextBlock == blockstart + ebsize_aligned

\* "Write out data", with the recovery from a write that fails with EIO.
Write ==
    /\ pc = "write"
    /\ LET eb == mtdoffset \div mtd.eb_size
           main == WriteMain
           oob == WriteOob
       IN \E res \in WriteResults(eb) :
          LET wlog == Append(log, Call("write", eb, mtdoffset, main, oob, res, blockstart))
          IN
          IF res = "ok"
          THEN /\ flash' = [flash EXCEPT ![mtdoffset \div mtd.min_io_size] =
                                            Programmed(@, main, oob)]
               /\ mtdoffset' = mtdoffset + mtd.min_io_size
               /\ writebuf' = writebuf + pagelen
               /\ log' = wlog
               /\ pc' = "loop"
               /\ UNCHANGED <<bad, failed, errmsg, partial_msg, ret>>
          ELSE IF res = "error"
          THEN /\ log' = wlog
               /\ closeall(TRUE, imglen, writebuf, filebuf_len, "MTD write failure")
               /\ UNCHANGED <<mtdoffset, bad, flash, writebuf>>
          ELSE \* errno == EIO: rewind, erase the block, mark it, go on
               /\ writebuf' = 0
               /\ \E er \in [DOMAIN EraseOffsets ->
                               {"ok", "EIO", "error"}],
                     mr \in DevResults(eb) \ {"EIO"} :
                    LET cs == EraseCalls(er, 1)
                        erased == Len(cs) = Len(EraseOffsets)
                                     /\ (cs = <<>> \/ cs[Len(cs)].res # "error")
                        mark == Call("mark_bad", eb, mtdoffset, <<>>, <<>>, mr, blockstart)
                    IN  /\ \A k \in DOMAIN EraseOffsets :
                              er[k] \in DevResults(EraseOffsets[k] \div mtd.eb_size)
                        /\ flash' = FlashAfterErase(cs)
                        /\ IF ~erased
                           THEN /\ log' = wlog \o cs
                                /\ closeall(TRUE, imglen, 0, filebuf_len,
                                            "MTD Erase failure")
                                /\ UNCHANGED <<mtdoffset, bad>>
                           ELSE IF markbad /\ mr = "error"
                           THEN /\ log' = Append(wlog \o cs, mark)
                                /\ closeall(TRUE, imglen, 0, filebuf_len,
                                            "MTD Mark bad block failure")
                                /\ UNCHANGED <<mtdoffset, bad>>
                           ELSE /\ log' = IF markbad THEN Append(wlog \o cs, mark)
                                          ELSE wlog \o cs
                                /\ bad' = IF markbad THEN bad \cup {eb} ELSE bad
                                /\ mtdoffset' = NextBlock
                                /\ pc' = "loop"
                                /\ UNCHANGED <<failed, errmsg, partial_msg, ret>>
    /\ UNCHANGED <<options, device, inpos, imglen, baderaseblock, blockstart,
                   filebuf, filebuf_len, ofg_imglen>>

Next == Setup \/ ScanBlocks \/ Fill \/ Write \/ Exit

Spec == Init /\ [][Next]_vars

\* The process has returned, exited or been killed.
Ended == pc \in {"done", "SIGFPE", "overflow"}

\* The process goes from one point of the program to another.
Advance ==
    /\ ~Ended
    /\ pc' \in {"start", "loop", "fill", "write", "done", "SIGFPE", "overflow"}
    /\ pc' # pc

\* The process is one thread that nothing suspends: until it has ended it
\* takes its next step, and every step takes it to another point of the
\* program.
FairSpec == Spec /\ WF_pc(Advance)

\* ------------------------------------------------------------ properties
\* The page writes issued so far, in order.
Writes == SelectSeq(log, LAMBDA e : e.op = "write")

\* A call that a collaborator failed.
Fault(e) ==
    IF e.op \in {"write", "erase", "mark_bad"} THEN e.res # "ok"
    ELSE IF e.op \in {"is_bad", "read", "read_oob"} THEN e.res < 0
    ELSE FALSE
NoFaults == \A i \in DOMAIN log : ~Fault(log[i])

\* The run returned and reported nothing.
Clean == pc = "done" /\ ~failed /\ ~partial_msg /\ errmsg = ""

StartPage == start \div mtd.min_io_size
\* Page k (from 0) of the input.
InputPage(k) == InputBytes(k * mtd.min_io_size, mtd.min_io_size)

\* Page k of the input as a padded fill stages it: 0xff after the last byte.
PaddedPage(k) ==
    [i \in 1..mtd.min_io_size |->
        IF k * mtd.min_io_size + i <= st_size THEN k * mtd.min_io_size + i
        ELSE kEraseByte]

\* A finite image of whole pages, without OOB, that the source holds in
\* full and that fits between a page-aligned start address and the device's
\* end, on a device without bad blocks whose calls all succeed.
PlainImage ==
    /\ ifd = "file"
    /\ ~writeoob
    /\ st_size >= InitialImglen
    /\ InitialImglen % mtd.min_io_size = 0
    /\ start % mtd.min_io_size = 0
    /\ InitialImglen <= mtd.size - start
    /\ bad = {}
    /\ NoFaults

\* C1: round trip.  When the run of a plain image has ended, device page
\* StartPage + k holds input page k for every page k of the image, every
\* other page is untouched, each page was written once and the run is
\* reported clean.
C1_RoundTrip ==
    (pc = "done" /\ PlainImage) =>
        LET n == InitialImglen \div mtd.min_io_size
        IN  /\ \A p \in DOMAIN flash :
                 flash[p].main = IF p >= StartPage /\ p < StartPage + n
                                 THEN InputPage(p - StartPage) ELSE <<>>
            /\ Len(Writes) = n
            /\ \A i \in 1..Len(Writes) :
                 Writes[i].at = start + (i - 1) * mtd.min_io_size
            /\ Clean

\* The round trip with the one failing case left out: an image that is not
\* both empty and placed at the device's end.
RoundTripInsideDevice ==
    (InitialImglen > 0 \/ start < mtd.size) => C1_RoundTrip

RoundTripReached ==
    /\ pc = "done"
    /\ PlainImage
    /\ InitialImglen = 3 * mtd.min_io_size
    /\ start = mtd.min_io_size
    /\ flash[3].main = InputPage(2)
    /\ Clean
\* The block alignments the help text documents.
DocumentedAlign == blockalign \in {1, 2, 4}

\* The aligned block an offset lies in, and the erase blocks it spans.
AlignedBlock(at) == (at \div ebsize_aligned) * ebsize_aligned
SubBlocks(b) == {e \in 0..(eb_cnt - 1) : AlignedBlock(e * mtd.eb_size) = b}
BadAligned(b) == SubBlocks(b) \cap bad # {}
\* The aligned blocks that lie inside the device.
AlignedBlocks ==
    {b \in {k * ebsize_aligned : k \in 0..eb_cnt} : b + ebsize_aligned <= mtd.size}

\* The writes that failed with EIO, as indexes into Writes.
FailedWrites == {i \in 1..Len(Writes) : Writes[i].res = "EIO"}
\* The only call that failed is one page write, with EIO.
OneWriteFailure ==
    /\ Cardinality(FailedWrites) = 1
    /\ \A i \in DOMAIN log : Fault(log[i]) => log[i].op = "write"
    /\ \A i \in 1..Len(Writes) : Writes[i].res \in {"ok", "EIO"}

\* C2: replay after a write failure.  In a finished run whose only failure
\* is one page write with EIO in aligned block B, with a good aligned block
\* after B inside the device: the first good aligned block G after B gets,
\* from its first page on and in order, the pages staged for B (those
\* written to B and the one that failed), and the pages written outside B
\* are the input's pages in order (the last one padded).
C2_Replay ==
    (/\ pc = "done"
     /\ DocumentedAlign
     /\ ~noskipbad
     /\ ~writeoob
     /\ OneWriteFailure
     /\ \E g \in AlignedBlocks :
           g > AlignedBlock(Writes[CHOOSE i \in FailedWrites : TRUE].at)
           /\ ~BadAligned(g))
    =>
    LET f == CHOOSE i \in FailedWrites : TRUE
        B == AlignedBlock(Writes[f].at)
        G == CHOOSE g \in AlignedBlocks :
                /\ g > B /\ ~BadAligned(g)
                /\ \A h \in AlignedBlocks : (h > B /\ h < g) => BadAligned(h)
        m == Cardinality({i \in 1..f : AlignedBlock(Writes[i].at) = B})
        outside == SelectSeq(Writes, LAMBDA e : AlignedBlock(e.at) # B)
    IN  /\ f + m <= Len(Writes)
        /\ \A j \in 1..m :
             /\ Writes[f + j].at = G + (j - 1) * mtd.min_io_size
             /\ Writes[f + j].main = Writes[f - m + j].main
        /\ \A k \in 1..Len(outside) : outside[k].main = PaddedPage(k - 1)

\* The replay on a device whose aligned blocks are single erase blocks.
ReplaySingleBlocks == (blockalign = 1) => C2_Replay

ReplayReached ==
    /\ pc = "done"
    /\ blockalign = 1
    /\ ~noskipbad /\ ~writeoob /\ OneWriteFailure
    /\ mtd.eb_size = 2 * mtd.min_io_size
    /\ Len(Writes) = 4
    /\ Writes[2].res = "EIO"
    /\ Writes[4].main = Writes[2].main

\* ------------------------------------------------------------------- C3
\* The call the run issued last.
LastCall == log[Len(log)]

\* C3: bad-block skipping.  With skipping enabled, a page write is never
\* issued inside an aligned block one of whose erase blocks is bad: when the
\* call issued last is a page write, its aligned block has no bad erase
\* block.
C3_SkipBad ==
    (~noskipbad /\ log # <<>> /\ LastCall.op = "write") =>
        ~BadAligned(AlignedBlock(LastCall.at))

\* The skipping on a device whose aligned blocks are single erase blocks.
SkipBadSingleBlocks == (blockalign = 1) => C3_SkipBad

\* ------------------------------------------------------------------- C4
\* The conditions of the final check, on the locals as the run left them.
EndedBadly ==
    \/ failed
    \/ ifd # STDIN_FILENO /\ imglen > 0
    \/ writebuf # NullPtr /\ writebuf < filebuf_len

\* C4: outcome value.  A run that ended with a fatal error, with unconsumed
\* bytes of a finite input or with unwritten staged data returns a non-zero
\* value.
C4_Outcome ==
    (pc = "done" /\ ret # <<>> /\ EndedBadly) => ret[1] # EXIT_SUCCESS

\* ------------------------------------------------------------------- C5
\* The run got as far as the write loop.
LoopReached == filebuf # <<>>

\* The pages an image of il bytes takes, a partial last page counted.
PagesNeeded(il) == (il + mtd.min_io_size - 1) \div mtd.min_io_size

\* Every page of a file image without OOB has been written successfully and
\* no fatal error occurred.
AllWritten ==
    /\ ifd = "file" /\ ~writeoob /\ ~failed
    /\ st_size >= InitialImglen
    /\ \A k \in 0..(PagesNeeded(InitialImglen) - 1) :
          \E i \in 1..Len(Writes) :
             Writes[i].res = "ok" /\ Writes[i].main = PaddedPage(k)

\* C5: final message.  In a finished run that reached the write loop, the
\* "partially written" message is emitted exactly when a fatal error
\* occurred, a finite input has unconsumed bytes or the staging cursor is
\* before the end of the filled data; and it is not emitted when all data
\* was written.
C5_PartialMessage ==
    (pc = "done" /\ LoopReached) =>
        /\ partial_msg <=> EndedBadly
        /\ AllWritten => ~partial_msg

\* The final message with the one failing case left out: an image that is
\* not both empty and placed at the device's end.
PartialMessageInsideDevice ==
    (InitialImglen > 0 \/ start < mtd.size) => C5_PartialMessage

\* ------------------------------------------------------------------- C6
\* A finished run on an input of st_size bytes, not a whole number of
\* pages, without OOB and without a declared length, from a page-aligned
\* start with room for every page of the input (the partial one included),
\* on a device without bad blocks whose calls all succeed.
PaddingCase ==
    /\ pc = "done"
    /\ ~writeoob /\ inputsize = 0
    /\ st_size % mtd.min_io_size # 0
    /\ start % mtd.min_io_size = 0
    /\ PagesNeeded(st_size) * mtd.min_io_size <= mtd.size - start
    /\ bad = {} /\ NoFaults

\* The input page that is partial, and the device offset it belongs at.
PartialPage == st_size \div mtd.min_io_size
PartialPageAt == start + PartialPage * mtd.min_io_size

\* The final page is on the device as the remaining bytes followed by 0xff,
\* after the whole pages, and the run is clean.
PaddedPageWritten ==
    /\ Len(Writes) = PagesNeeded(st_size)
    /\ \A i \in 1..Len(Writes) :
          /\ Writes[i].at = start + (i - 1) * mtd.min_io_size
          /\ Writes[i].main = PaddedPage(i - 1)
    /\ flash[StartPage + PartialPage].main = PaddedPage(PartialPage)
    /\ Clean

\* No write was issued for the partial page.
PartialPageNeverWritten ==
    /\ \A i \in 1..Len(Writes) : Writes[i].at < PartialPageAt
    /\ flash[StartPage + PartialPage].main = <<>>

\* C6 as the specification states it: with pad the final page is written
\* padded with 0xff; without pad the run ends in the fatal "Unexpected EOF"
\* error and the partial page is never written.
C6_PaddingAsStated ==
    PaddingCase =>
        IF pad THEN PaddedPageWritten
        ELSE failed /\ errmsg = "Unexpected EOF" /\ PartialPageNeverWritten

\* C6: padding.  With pad the final page is written as the remaining bytes
\* followed by 0xff.  Without pad the run ends in a fatal error and the
\* partial page is never written: for a stream the error is "Unexpected EOF",
\* raised after the whole pages before it were written; for a file it is
\* "Input file is not page-aligned", raised before any device call.
C6_Padding ==
    PaddingCase =>
        IF pad THEN PaddedPageWritten
        ELSE /\ failed /\ partial_msg
             /\ PartialPageNeverWritten
             /\ IF ifd = STDIN_FILENO
                THEN /\ errmsg = "Unexpected EOF"
                     /\ Len(Writes) = PartialPage
                ELSE /\ errmsg = "Input file is not page-aligned"
                     /\ log = <<>>

\* A three-byte file is on the device as <<1, 2>>, <<3, 0xff>>.
PaddingReached ==
    /\ PaddingCase /\ pad /\ ifd = "file"
    /\ st_size = 3 /\ start = 2
    /\ flash[1].main = <<1, 2>>
    /\ flash[2].main = <<3, kEraseByte>>

\* A three-byte stream without pad: one page written, then the fatal error.
UnexpectedEofReached ==
    /\ PaddingCase /\ ~pad /\ ifd = STDIN_FILENO
    /\ st_size = 3
    /\ Len(Writes) = 1
    /\ errmsg = "Unexpected EOF"

\* ------------------------------------------------------------------- C7
\* A finished run on a file without OOB and without a declared length, from
\* start offset 0, on a device without bad blocks whose calls all succeed.
BoundaryCase ==
    /\ pc = "done"
    /\ ifd = "file" /\ inputsize = 0 /\ ~writeoob
    /\ start = 0
    /\ bad = {} /\ NoFaults

\* C7: boundary.  From start offset 0 a file of exactly the device's size
\* ends clean, with no input bytes remaining and every device page written
\* once with its input page; a file one page longer fails the capacity check
\* before any device call.
C7_Boundary ==
    BoundaryCase =>
        /\ st_size = mtd.size =>
              /\ Clean /\ imglen = 0
              /\ Len(Writes) = NumPages
              /\ \A i \in 1..Len(Writes) :
                    /\ Writes[i].at = (i - 1) * mtd.min_io_size
                    /\ Writes[i].res = "ok"
              /\ \A p \in DOMAIN flash : flash[p].main = InputPage(p)
        /\ st_size = mtd.size + mtd.min_io_size =>
              /\ failed /\ partial_msg
              /\ errmsg = "Input file does not fit into device"
              /\ log = <<>>

\* A file of the device's size has filled the device.
BoundaryReached ==
    /\ BoundaryCase
    /\ st_size = mtd.size
    /\ Len(Writes) = NumPages
    /\ flash[NumPages - 1].main = InputPage(NumPages - 1)
    /\ Clean

\* A file one page longer than the device was rejected.
OversizeReached ==
    /\ BoundaryCase
    /\ st_size = mtd.size + mtd.min_io_size
    /\ errmsg = "Input file does not fit into device"

\* ------------------------------------------------------------------- C8
\* The pages an image of il bytes takes with the page length in use.
ImagePages(il) == (il + pagelen - 1) \div pagelen

\* C8: capacity pre-flight.  A file image that needs more pages than lie
\* between a page-aligned start offset and the device's end is rejected
\* before any bad-block query, page write or erase: once past the checks
\* the run has ended with an error and no call to the device or the input.
C8_Capacity ==
    (/\ pc # "start"
     /\ ifd = "file"
     /\ start % mtd.min_io_size = 0
     /\ ImagePages(InitialImglen) * mtd.min_io_size > mtd.size - start)
    => pc = "done" /\ failed /\ log = <<>>

\* The capacity pre-flight for images of whole pages.
CapacityWholePages ==
    (InitialImglen % pagelen = 0) => C8_Capacity

\* A padded file one byte longer than the device: every device page was
\* written and the last byte was left over.
OverrunReached ==
    /\ pc = "done"
    /\ ifd = "file" /\ pad /\ inputsize = 0
    /\ start = 0 /\ st_size = mtd.size + 1
    /\ Len(Writes) = NumPages
    /\ imglen = 1
    /\ ~failed

\* ------------------------------------------------------------------- C9
\* The read of an OOB region at log[i] came back short.
ShortOobRead(i) ==
    log[i].op = "read_oob" /\ log[i].res >= 0 /\ log[i].res < mtd.oob_size

\* C9: OOB-only mode.  With onlyoob set every page write passes no main
\* data and one OOB region, no page of the device gets main data, the
\* cursor is one page past a write that succeeded, and a short read of an
\* OOB region is the run's last call: it ends the run with the fatal
\* "Unexpected EOF for OOB", with or without pad.
C9_OnlyOob ==
    onlyoob =>
        /\ \A i \in 1..Len(Writes) :
              /\ Writes[i].main = <<>>
              /\ Len(Writes[i].oob) = mtd.oob_size
        /\ \A p \in DOMAIN flash : flash[p].main = <<>>
        /\ (log # <<>> /\ LastCall.op = "write" /\ LastCall.res = "ok") =>
              mtdoffset = LastCall.at + mtd.min_io_size
        /\ \A i \in DOMAIN log :
              ShortOobRead(i) =>
                 /\ i = Len(log)
                 /\ pc = "done" /\ failed /\ partial_msg
                 /\ errmsg = "Unexpected EOF for OOB"

\* An OOB-only run with pad on five bytes: the first page's OOB byte went
\* to the device, the second page's OOB region was missing.
OnlyOobReached ==
    /\ onlyoob /\ pad
    /\ st_size = 5 /\ start = 0
    /\ pc = "done"
    /\ Len(Writes) = 1
    /\ Writes[1].main = <<>> /\ Writes[1].oob = <<3>>
    /\ flash[0].oob = <<3>>
    /\ ShortOobRead(Len(log))
    /\ errmsg = "Unexpected EOF for OOB"

\* ------------------------------------------------------------------ C10
\* The erase blocks of an aligned block.
SubUnits == (ebsize_aligned + mtd.eb_size - 1) \div mtd.eb_size

\* The erases after the failed write log[i] up to the j-th all came back
\* without a fatal error.
ErasesPass(i, j) == \A h \in 1..j : log[i + h].res # "error"

\* C10: recovery protocol.  After a page write that failed with EIO, with B
\* the start of the aligned block the run is in (the aligned block of the
\* failed page for a documented alignment): the next calls are the erases
\* of B's erase blocks in order, each issued unless an erase before it
\* failed with an errno other than EIO, which ends the run; then, exactly
\* if markbad is set, the mark of the failed page's erase block, whose
\* failure ends the run; then the cursor is B + ebsize_aligned and no error
\* is reported.  No later
\* page write lies in B, and no mark is issued without markbad.
C10_Recovery ==
    /\ \A i \in DOMAIN log :
          (log[i].op = "write" /\ log[i].res = "EIO") =>
          LET B == log[i].bs
              r == i + SubUnits + (IF markbad THEN 1 ELSE 0)
          IN  /\ DocumentedAlign => B = AlignedBlock(log[i].at)
              /\ \A j \in 1..SubUnits :
                    (j = 1 \/ (i + j - 1 <= Len(log) /\ ErasesPass(i, j - 1))) =>
                       /\ i + j <= Len(log)
                       /\ log[i + j].op = "erase"
                       /\ log[i + j].at = B + (j - 1) * mtd.eb_size
                       /\ log[i + j].eb = log[i + j].at \div mtd.eb_size
                       /\ log[i + j].res = "error" =>
                             /\ Len(log) = i + j
                             /\ pc = "done" /\ failed
                             /\ errmsg = "MTD Erase failure"
              /\ (i + SubUnits <= Len(log) /\ ErasesPass(i, SubUnits)) =>
                    /\ r <= Len(log)
                    /\ markbad =>
                          /\ log[r].op = "mark_bad"
                          /\ log[r].eb = log[i].at \div mtd.eb_size
                          /\ log[r].res # "ok" =>
                                /\ Len(log) = r
                                /\ pc = "done" /\ failed
                                /\ errmsg = "MTD Mark bad block failure"
                    /\ (Len(log) = r /\ (markbad => log[r].res = "ok")) =>
                          mtdoffset = B + ebsize_aligned /\ errmsg = ""
                    /\ r < Len(log) => log[r + 1].op \notin {"erase", "mark_bad"}
              /\ \A k \in DOMAIN log :
                    (k > i /\ log[k].op = "write") =>
                       ~(log[k].at >= B /\ log[k].at < B + ebsize_aligned)
    /\ \A k \in DOMAIN log : log[k].op = "mark_bad" => markbad

\* A recovery over an aligned block of two erase blocks with markbad: the
\* first erase failed with EIO, the second was still issued, the block was
\* marked and the cursor is at the next aligned block.
RecoveryReached ==
    /\ blockalign = 2 /\ markbad
    /\ Len(log) > 3
    /\ log[Len(log) - 3].op = "write" /\ log[Len(log) - 3].res = "EIO"
    /\ log[Len(log) - 2].op = "erase" /\ log[Len(log) - 2].res = "EIO"
    /\ log[Len(log) - 1].op = "erase" /\ log[Len(log) - 1].res = "ok"
    /\ LastCall.op = "mark_bad" /\ LastCall.res = "ok"
    /\ mtdoffset = log[Len(log) - 3].bs + ebsize_aligned
    /\ mtdoffset < mtd.size

\* ------------------------------------------------------------------ C11
\* The run got past the option and alignment checks.
Accepted == pc \notin {"start", "done"} \/ log # <<>> \/ imglen # 0

\* C11: alignment validation.  A run that got past the checks has an
\* ebsize_aligned that is a positive multiple of the page size; a run with
\* a negative or zero block alignment ends at the checks, with an error and
\* no call to the device or the input.
C11_Alignment ==
    /\ Accepted =>
          ebsize_aligned > 0 /\ ebsize_aligned % mtd.min_io_size = 0
    /\ (blockalign <= 0 /\ pc # "start") =>
          /\ pc = "done" /\ errmsg # "" /\ log = <<>>
          /\ ret # <<EXIT_SUCCESS>>

\* The alignment validation for the negative values.
NegativeAlignRejected ==
    (blockalign < 0 /\ pc # "start") =>
        /\ pc = "done" /\ log = <<>>
        /\ ret = <<EXIT_FAILURE>>
        /\ errmsg = "Can't specify negative blockalign with option -b"

\* A run with block alignment 0 has asked about a bad block.
ZeroAlignReached ==
    /\ blockalign = 0
    /\ ebsize_aligned = 0
    /\ log # <<>>
    /\ LastCall.op = "is_bad"

\* ------------------------------------------------------------------ C12
\* The calls that stage input or program a page.
Staging == {"read", "read_oob", "write"}

\* Before log[i] the calls hold a scan of the aligned block B = log[i].bs:
\* one query per erase block of B, in order, each answered "good", and
\* after it nothing but calls made in B.  With exact, each query names the
\* erase block at its offset.
ScannedBefore(i, exact) ==
    LET B == log[i].bs
    IN  \E q \in SubUnits..(i - 1) :
           /\ \A h \in (q + 1)..(i - 1) : log[h].op # "is_bad" /\ log[h].bs = B
           /\ \A k \in 1..SubUnits :
                 LET e == log[q - SubUnits + k]
                 IN  /\ e.op = "is_bad" /\ e.bs = B /\ e.res = 0
                     /\ e.at = B + (k - 1) * mtd.eb_size
                     /\ exact => e.eb = e.at \div mtd.eb_size

\* Every staging call comes after the scan of the block it is made in.
ScanFirst(exact) ==
    \A i \in DOMAIN log :
       log[i].op \in Staging =>
          /\ ScannedBefore(i, exact)
          /\ (log[i].op = "write" /\ DocumentedAlign) =>
                AlignedBlock(log[i].at) = log[i].bs

\* C12: scan before stage.  With skipping enabled, every read into the
\* staging buffer and every page write is made after the scan of the
\* aligned block the cursor is in has asked about each of its erase blocks
\* and found them good, so that no input is staged for, or written to, an
\* aligned block with a bad erase block.
C12_ScanBeforeStage ==
    (~noskipbad /\ blockalign >= 1) =>
        /\ ScanFirst(TRUE)
        /\ (log # <<>> /\ LastCall.op \in Staging) => ~BadAligned(LastCall.bs)

\* The order alone: the scan loop has run over the block's offsets, with
\* whatever erase block each query named.
ScanOrder == (~noskipbad /\ blockalign >= 1) => ScanFirst(FALSE)

\* Scan before stage on a device whose aligned blocks are single erase
\* blocks.
ScanBeforeStageSingleBlocks == (blockalign = 1) => C12_ScanBeforeStage

\* ------------------------------------------------------------------ C13
\* A call whose failure is fatal: a bad-block query or a read that failed,
\* a write or an erase that failed with an errno other than EIO, a mark
\* that failed.
FatalCall(e) ==
    \/ e.op \in {"is_bad", "read", "read_oob"} /\ e.res < 0
    \/ e.op \in {"write", "erase"} /\ e.res = "error"
    \/ e.op = "mark_bad" /\ e.res # "ok"

\* The run ended with an unexpected end of the input.
UnexpectedEof == errmsg \in {"Unexpected EOF", "Unexpected EOF for OOB"}

\* C13: fatal errors stop all device activity.  A call that failed fatally
\* is the last call of the run, which has ended with an error; so is the
\* short read behind an "Unexpected EOF".  In particular the write that
\* failed with an errno other than EIO is followed by no erase and no mark.
C13_FatalStops ==
    /\ \A i \in DOMAIN log :
          FatalCall(log[i]) => i = Len(log) /\ pc = "done" /\ failed
    /\ UnexpectedEof =>
          /\ pc = "done" /\ failed
          /\ LastCall.op \in {"read", "read_oob"}
          /\ LastCall.res < (IF LastCall.op = "read" THEN mtd.min_io_size
                             ELSE mtd.oob_size)

\* With markbad set, the second page write failed with an errno other than
\* EIO and the run ended there.
FatalWriteReached ==
    /\ markbad
    /\ pc = "done" /\ failed
    /\ errmsg = "MTD write failure"
    /\ Len(Writes) = 2
    /\ LastCall.op = "write" /\ LastCall.res = "error"
    /\ LastCall.at < mtd.size

\* ------------------------------------------------------------------ C14
\* The reads of the input that came back, in order.
Reads == SelectSeq(log, LAMBDA e : e.op \in {"read", "read_oob"} /\ e.res >= 0)

\* The bytes the reads before the k-th delivered.
RECURSIVE ReadBefore(_)
ReadBefore(k) == IF k <= 1 THEN 0 ELSE ReadBefore(k - 1) + Reads[k - 1].res

\* Every read starts where the one before it ended: each byte of the input
\* is read at most once and in order.
ReadInOrder ==
    /\ \A k \in 1..Len(Reads) : Reads[k].at = ReadBefore(k)
    /\ inpos = ReadBefore(Len(Reads) + 1)
    /\ inpos <= st_size

\* The staging buffer holds a whole page (with its OOB when enabled) from
\* the cursor on.
PageStaged == writebuf # NullPtr /\ writebuf + pagelen <= filebuf_len

\* A step from a state with a staged page issues no read and leaves the
\* input position and the remaining-bytes counter alone.
NoReadWhenStaged ==
    PageStaged =>
        /\ inpos' = inpos /\ imglen' = imglen
        /\ \A i \in (Len(log) + 1)..Len(log') :
              log'[i].op \notin {"read", "read_oob"}

\* C14: no re-read.  Every byte of the input is read at most once and in
\* order, and while the staging buffer holds a whole page from the cursor
\* on, as during the replay after a write failure, no step reads from the
\* input or changes the remaining-bytes counter.
C14_NoReread == [](ReadInOrder) /\ [][NoReadWhenStaged]_vars

\* A replay: a page is staged at the cursor after a write failed, and the
\* input has been read.
ReplayStaged ==
    /\ PageStaged
    /\ pc = "write"
    /\ inpos > 0
    /\ Len(Writes) > 0 /\ Writes[Len(Writes)].res = "EIO"

\* ------------------------------------------------------------------ C15
\* C15: block start computation.  When a page is about to be staged or
\* written, the blockstart computed for the cursor is the cursor rounded
\* down to a multiple of ebsize_aligned.
C15_BlockStart ==
    (pc \in {"fill", "write"} /\ ebsize_aligned > 0) =>
        blockstart = (mtdoffset \div ebsize_aligned) * ebsize_aligned

\* The block start for the block alignments that are powers of two.
BlockStartDocumented == DocumentedAlign => C15_BlockStart

\* With three erase blocks to the aligned block, the block start of the
\* cursor is no multiple of ebsize_aligned.
OddBlockStartReached ==
    /\ blockalign = 3
    /\ pc = "write"
    /\ blockstart % ebsize_aligned # 0

\* ------------------------------------------------------------------ C16
\* The calls that address the device.
DeviceOps == {"is_bad", "write", "erase", "mark_bad"}

\* Data remains to be written and no block inside the device is left.
OutOfSpace ==
    /\ pc = "done"
    /\ imglen > 0 \/ (writebuf # NullPtr /\ writebuf < filebuf_len)
    /\ mtdoffset >= mtd.size

\* C16: device bounds.  No bad-block query, page write, erase or mark is
\* issued for an offset at or beyond the device's size; and a run that
\* skipping bad blocks took to the device's end with data left has ended
\* with "too many bad blocks".
C16_DeviceBounds ==
    /\ \A i \in DOMAIN log :
          log[i].op \in DeviceOps => log[i].at < mtd.size
    /\ (OutOfSpace /\ baderaseblock) => errmsg = "too many bad blocks"

\* The device bounds when no erase block is bad, for the documented block
\* alignments.
DeviceBoundsNoBadBlocks ==
    (bad = {} /\ DocumentedAlign) =>
        \A i \in DOMAIN log : log[i].op \in DeviceOps => log[i].at < mtd.size

\* A bad-block query was made for the offset at the device's end.
QueryBeyondReached ==
    /\ blockalign = 1
    /\ log # <<>>
    /\ LastCall.op = "is_bad"
    /\ LastCall.at = mtd.size
    /\ LastCall.eb = eb_cnt

\* ------------------------------------------------------------------ C17
\* The bytes the input source can supply to the run: all of a stream, and
\* of a file as many as --input-size says, if given.
Supply ==
    IF ifd = STDIN_FILENO \/ inputsize = 0 THEN st_size
    ELSE Min(inputsize, st_size)

\* C17: clean means complete.  A run without OOB that is reported clean has
\* read every byte the source can supply, and every one of them is in a
\* page that was written successfully.
C17_CleanComplete ==
    (Clean /\ ~writeoob) =>
        /\ inpos = Supply
        /\ \A b \in 1..Supply :
              \E i \in 1..Len(Writes) :
                 Writes[i].res = "ok" /\ \E j \in DOMAIN Writes[i].main :
                    Writes[i].main[j] = b

\* Clean means complete for a regular file.
CleanCompleteFile == (ifd = "file") => C17_CleanComplete

\* A stream longer than the device: the device is full, bytes are unread
\* and the run is reported clean.
SilentOverrunReached ==
    /\ ifd = STDIN_FILENO
    /\ Clean
    /\ start = 0 /\ mtdoffset = mtd.size
    /\ Len(Writes) = NumPages
    /\ inpos < st_size

\* ------------------------------------------------------------------ C18
\* A step never moves the cursor back, and a page write after which the
\* loop goes on moves it forward by at least one page.
CursorAdvances ==
    /\ mtdoffset' >= mtdoffset
    /\ (pc = "write" /\ pc' = "loop") => mtdoffset' >= mtdoffset + mtd.min_io_size

\* C18: termination.  Every run ends, whatever the bad blocks, the outcomes
\* of the device calls and the input are: the cursor never decreases and
\* every iteration that does not end the run moves it forward by at least
\* one page.
C18_Termination ==
    /\ <>Ended
    /\ [][CursorAdvances]_vars

\* With a block alignment of at least one erase block every run reaches
\* closeall, or is killed for a division by zero, and the cursor advances
\* as C18 says; no such run has more write failures than the bound allows.
TerminationPositiveAlign ==
    /\ (blockalign >= 1) => <>(pc \in {"done", "SIGFPE"})
    /\ [][blockalign >= 1 => CursorAdvances]_vars

FailuresWithinBound ==
    blockalign >= 1 =>
        Cardinality({i \in DOMAIN log : log[i].op = "write" /\ log[i].res = "EIO"})
            < MaxWriteFailures

\* A run that skipped a bad block and recovered from a write failure has
\* ended clean.
EndedAfterSkipAndRecovery ==
    /\ Clean
    /\ \E i \in DOMAIN log : log[i].op = "is_bad" /\ log[i].res = 1
    /\ \E i \in DOMAIN log : log[i].op = "write" /\ log[i].res = "EIO"
    /\ Len(Writes) >= 3

\* With a block alignment of zero the recovery from a failed write has put
\* the cursor back on the page that failed, and that page is written again.
RewoundToFailedPage ==
    /\ blockalign = 0
    /\ pc = "write"
    /\ \E i \in DOMAIN log :
          log[i].op = "write" /\ log[i].res = "EIO" /\ log[i].at = mtdoffset

\* The staging buffer is overrun only with a block alignment of zero.
OverrunOnlyZeroAlign == pc = "overflow" => blockalign = 0

\* ------------------------------------------------------------------ C19
\* The loop is at the start of an iteration, or between the block scan and
\* the fill, with the first block scan behind it.
IterationStart == pc \in {"loop", "fill"} /\ blockstart # -1

\* The staging buffer's capacity, cursor and filled length are in order and
\* on page boundaries.
BufferInOrder ==
    /\ 0 <= writebuf /\ writebuf <= filebuf_len /\ filebuf_len <= filebuf_max
    /\ writebuf % pagelen = 0
    /\ filebuf_len % pagelen = 0

\* No fill has stored a byte outside the staging buffer.
FillsInside ==
    /\ pc # "overflow"
    /\ blockstart # -1 => Len(filebuf) <= filebuf_max

\* C19: staging buffer bounds.  At the start of every loop iteration after
\* the first block scan 0 <= cursor <= filled length <= capacity, cursor and
\* filled length are multiples of the page length with OOB, and every fill
\* writes only inside the buffer.
C19_BufferBounds ==
    /\ IterationStart => BufferInOrder
    /\ FillsInside

\* The same with a block alignment of at least one erase block.
BufferBoundsPositiveAlign == blockalign >= 1 => C19_BufferBounds

\* A run that started in the middle of a block replays the staged page of
\* its next block after a write failure, with the buffer in order.
MidBlockReplayReached ==
    /\ blockalign = 2
    /\ start % ebsize_aligned # 0
    /\ pc = "fill"
    /\ blockstart > BlockStartOf(start)
    /\ writebuf = 0
    /\ filebuf_len > 0
    /\ log[Len(log)].op \in {"erase", "mark_bad"}

\* With a block alignment of zero a page has been filled into the buffer of
\* no bytes, and the run goes on to write it.
BufferOverrunReached ==
    /\ blockalign = 0
    /\ filebuf_max = 0
    /\ pc = "write"
    /\ filebuf_len = pagelen

\* ------------------------------------------------------------------ C20
\* The progress reports of the run (set_step_progress), as indexes into log.
Reports == {i \in DOMAIN log : log[i].op = "progress"}

\* The length of the finite input as the run was given it: --input-size, or
\* the size of the file.
TotalInputLength == IF inputsize # 0 THEN inputsize ELSE st_size

\* Report i follows a read of the page fill that returned at least one
\* byte, and its value is the input consumed up to and with that read, in
\* hundredths of the input length.
ReportAsStated(i) ==
    /\ i > 1
    /\ log[i - 1].op = "read"
    /\ log[i - 1].res > 0
    /\ TotalInputLength > 0
    /\ log[i].res = ((log[i - 1].at + log[i - 1].res) * 100) \div TotalInputLength

\* C20: progress reporting.  For a finite input a progress value is reported
\* only after a page fill that consumed at least one new input byte, each
\* value is consumedBytes * 100 / totalInputLength, and the values are
\* non-decreasing and within 0..100, whether the input length is the file's
\* size or the explicit input size.
C20_Progress ==
    /\ Reports # {} => ifd # STDIN_FILENO
    /\ \A i \in Reports :
          /\ ReportAsStated(i)
          /\ log[i].res >= 0 /\ log[i].res <= 100
    /\ \A i, j \in Reports : i < j => log[i].res <= log[j].res

\* The same where the input length is the size of the file.
ProgressOfFileSize == inputsize = 0 => C20_Progress

\* A file of two pages, its length taken from its size, has been staged
\* with the reports 50 and 100.
HalfThenAllReached ==
    /\ inputsize = 0
    /\ ifd = "file"
    /\ \E i, j \in Reports : i < j /\ log[i].res = 50 /\ log[j].res = 100

\* A file written with --input-size has had a value outside 0..100 reported.
ProgressOutOfRangeReached ==
    /\ inputsize # 0
    /\ ifd = "file"
    /\ \E i \in Reports : log[i].res < 0 \/ log[i].res > 100

\* A file written with --input-size has been killed while it computed the
\* progress value, with a block alignment that does not divide by zero.
ProgressFaultReached ==
    /\ inputsize # 0
    /\ ifd = "file"
    /\ ebsize_aligned # 0
    /\ pc = "SIGFPE"
=============================================================================
